---- MODULE Spec2Model ----
(***************************************************************************)
(* Model of the two commands of src-tauri/src/main.rs:                     *)
(*   scan_ports(ranges)  - filter the TCP socket table to listening        *)
(*                         sockets in the given port ranges and join each  *)
(*                         owning pid against the process table;           *)
(*   kill_pid(pid)       - terminate a process: `kill -TERM` then          *)
(*                         `kill -KILL` (not windows), `taskkill` (windows)*)
(* The OS (socket table, process table, outcome of an external command) is *)
(* the environment: each read or command draws its answer from a bounded   *)
(* set at the step that performs it.                                       *)
(***************************************************************************)
EXTENDS Integers, Sequences, FiniteSets, TLC

VARIABLES
    platform,   \* build target: "unix" (cfg(not(windows))) or "windows"
    op,         \* command in flight: "none", "scan_ports" or "kill_pid"
    pc,         \* position inside the command in flight
    ranges,     \* scan_ports: the argument `ranges`
    sockets,    \* scan_ports: the local `sockets` (result of get_sockets_info)
    procs,      \* scan_ports: the local `system` (pid -> process)
    osCalls,    \* scan_ports: OS table reads performed, in order, each
                \* with whether it succeeded
    pid,        \* kill_pid: the argument `pid`
    term,       \* kill_pid: outcome of the `kill -TERM` command (local `term`)
    kill,       \* kill_pid: outcome of the `kill -KILL` / `taskkill` command
    requests,   \* kill_pid: external commands run, in order
    result      \* the value the command returned

vars == <<platform, op, pc, ranges, sockets, procs, osCalls,
          pid, term, kill, requests, result>>

-----------------------------------------------------------------------------
(* Bounds of the model *)

MaxRanges == 2
MaxSockets == 1
MaxExitCode == 2
MaxKillPid == 4

\* u16::MAX, the largest port a PortRange or a socket can carry
MaxU16 == 65535

\* sample ports: both ends of the u16 space and an interior port
RangePorts == {0, MaxU16}
SocketPorts == {0, 1, MaxU16}

\* sample pids of processes owning sockets
Pids == {1, 2}

\* sample pids handed to kill_pid (0 is the invalid pid)
KillPids == 0..MaxKillPid

-----------------------------------------------------------------------------
(* Option<T>: None is the empty tuple, Some(x) the one-element tuple *)

None == <<>>
Some(x) == <<x>>
IsSome(o) == o # <<>>

(* Result<T, String> *)
Pending == [tag |-> "Pending", val |-> <<>>]
Ok(v) == [tag |-> "Ok", val |-> v]
Err(e) == [tag |-> "Err", val |-> e]

(* Sequences over S of length at most n *)
SeqUpTo(S, n) == UNION {[1..k -> S] : k \in 0..n}

-----------------------------------------------------------------------------
(* Data *)

PortRange == [start : RangePorts, end : RangePorts]

RangeLists == SeqUpTo(PortRange, MaxRanges)

\* the values of socket.associated_pids the model draws from: no owner,
\* one owner, several owners in either order, the same owner twice
OwnerLists == SeqUpTo(Pids, Cardinality(Pids))

\* a TCP socket of the snapshot: local port, TcpState, owning pids.
\* get_sockets_info is asked for ProtocolFlags::TCP only, so every socket of
\* the snapshot is ProtocolSocketInfo::Tcp and the `_ => continue` arm of
\* the match is never taken. associated_pids is a Vec<u32>: `pid as u32`
\* and Pid::from_u32 keep the value.
SocketInfo == [local_port : SocketPorts,
               state : {"Listen", "Established"},
               associated_pids : OwnerLists]

SocketTables == SeqUpTo(SocketInfo, MaxSockets)

\* the process a pid names, when it is running
ProcessOf(p) == [name |-> IF p = 1 THEN "alpha" ELSE "beta", run_time |-> 60 * p]

\* the process snapshots: any subset of the sample pids may be running
ProcTables == {[p \in S |-> ProcessOf(p)] : S \in SUBSET Pids}

\* std::process::ExitStatus: code() is Some(n) or None (ended by a signal)
ExitStatuses == {None} \cup {Some(n) : n \in 0..MaxExitCode}

\* io::Result<ExitStatus> of Command::status(): the command could not be run
\* (spawned = FALSE), or it ran and ended with a status
CmdOutcomes == {[spawned |-> FALSE, code |-> None]}
               \cup {[spawned |-> TRUE, code |-> c] : c \in ExitStatuses}

NoOutcome == [spawned |-> FALSE, code |-> <<"not run">>]

\* ExitStatus::success()
Success(o) == o.spawned /\ o.code = Some(0)

-----------------------------------------------------------------------------
(* scan_ports: pure parts *)

\* variant of InAnyRange: start and end are compared as given
InAnyRangeAsGiven(port, rs) ==
    \E i \in 1..Len(rs) : port >= rs[i].start /\ port <= rs[i].end

InAnyRange(port, rs) ==
    \E i \in 1..Len(rs) :
        LET r == rs[i]
            a == IF r.start <= r.end THEN r.start ELSE r.end
            b == IF r.start <= r.end THEN r.end ELSE r.start
        IN  port >= a /\ port <= b

\* variant of SocketMatches: the TcpState is not looked at
SocketMatchesAnyState(s, rs) == InAnyRange(s.local_port, rs)

\* the socket survives both `continue`s of the loop body
SocketMatches(s, rs) ==
    /\ s.state = "Listen"
    /\ InAnyRange(s.local_port, rs)

\* system.process(pid): Some(process) or None
ProcessLookup(ps, p) == IF p \in DOMAIN ps THEN Some(ps[p]) ELSE None

\* variant of ListenerFor: a missing process reads as run time 0
ListenerForZeroRunTime(port, p, ps) ==
    LET proc == ProcessLookup(ps, p)
    IN  [port |-> port,
         pid |-> p,
         process_name |-> IF IsSome(proc) THEN Some(proc[1].name) ELSE None,
         started_seconds_ago |-> IF IsSome(proc) THEN Some(proc[1].run_time) ELSE Some(0)]

\* the ListenerInfo pushed for one owning pid
ListenerFor(port, p, ps) ==
    LET proc == ProcessLookup(ps, p)
    IN  [port |-> port,
         pid |-> p,
         process_name |-> IF IsSome(proc) THEN Some(proc[1].name) ELSE None,
         started_seconds_ago |-> IF IsSome(proc) THEN Some(proc[1].run_time) ELSE None]

\* variant of RecordsOf: only the first owning pid is reported
RecordsOfFirstOwner(s, ps) ==
    IF s.associated_pids = <<>> THEN <<>>
    ELSE <<ListenerFor(s.local_port, s.associated_pids[1], ps)>>

\* the inner loop: one push per element of socket.associated_pids, in order
RecordsOf(s, ps) ==
    [j \in 1..Len(s.associated_pids) |->
        ListenerFor(s.local_port, s.associated_pids[j], ps)]

\* the outer loop: `out` after the sockets ss have been visited in order
RECURSIVE ScanJoin(_, _, _)
ScanJoin(rs, ss, ps) ==
    IF ss = <<>> THEN <<>>
    ELSE LET s == Head(ss)
         IN  (IF SocketMatches(s, rs) THEN RecordsOf(s, ps) ELSE <<>>)
             \o ScanJoin(rs, Tail(ss), ps)

-----------------------------------------------------------------------------
(* State machine *)

Init ==
    /\ platform \in {"unix", "windows"}
    /\ op = "none"
    /\ pc = "idle"
    /\ ranges = <<>>
    /\ sockets = <<>>
    /\ procs = <<>>
    /\ osCalls = <<>>
    /\ pid = 0
    /\ term = NoOutcome
    /\ kill = NoOutcome
    /\ requests = <<>>
    /\ result = Pending

\* one read of an OS table and whether it succeeded
OsCall(t, succeeded) == [table |-> t, ok |-> succeeded]

scanVars == <<ranges, sockets, procs, osCalls>>
killVars == <<pid, term, kill, requests>>

(* scan_ports *)

\* variant of ScanPorts: the empty range list is scanned like any other
ScanPortsNoShortCircuit ==
    /\ pc = "idle"
    /\ \E rs \in RangeLists :
        /\ ranges' = rs
        /\ op' = "scan_ports"
        /\ pc' = "get_sockets_info"
        /\ result' = Pending
    /\ UNCHANGED <<platform, sockets, procs, osCalls, killVars>>

\* entry: the empty range list returns at once
ScanPorts ==
    /\ pc = "idle"
    /\ \E rs \in RangeLists :
        /\ ranges' = rs
        /\ op' = "scan_ports"
        /\ IF rs = <<>>
           THEN pc' = "done" /\ result' = Ok(<<>>)
           ELSE pc' = "get_sockets_info" /\ result' = Pending
    /\ UNCHANGED <<platform, sockets, procs, osCalls, killVars>>

\* variant of GetSocketsInfo: a failed read counts as an empty table
GetSocketsInfoOrEmpty ==
    /\ pc = "get_sockets_info"
    /\ \/ /\ sockets' \in SocketTables
          /\ osCalls' = Append(osCalls, OsCall("sockets", TRUE))
       \/ /\ sockets' = <<>>
          /\ osCalls' = Append(osCalls, OsCall("sockets", FALSE))
    /\ pc' = "refresh_processes"
    /\ UNCHANGED <<platform, op, ranges, procs, result, killVars>>

\* get_sockets_info(...).map_err(|e| e.to_string())?
GetSocketsInfo ==
    /\ pc = "get_sockets_info"
    /\ \/ /\ sockets' \in SocketTables
          /\ osCalls' = Append(osCalls, OsCall("sockets", TRUE))
          /\ pc' = "refresh_processes"
          /\ UNCHANGED result
       \/ /\ osCalls' = Append(osCalls, OsCall("sockets", FALSE))
          /\ result' = Err(<<"get_sockets_info failed">>)
          /\ pc' = "done"
          /\ UNCHANGED sockets
    /\ UNCHANGED <<platform, op, ranges, procs, killVars>>

\* System::new_all(); system.refresh_processes(All, true)
RefreshProcesses ==
    /\ pc = "refresh_processes"
    /\ osCalls' = Append(osCalls, OsCall("processes", TRUE))
    /\ procs' \in ProcTables
    /\ pc' = "join"
    /\ UNCHANGED <<platform, op, ranges, sockets, result, killVars>>

\* the for loop over the sockets and Ok(out)
JoinSockets ==
    /\ pc = "join"
    /\ result' = Ok(ScanJoin(ranges, sockets, procs))
    /\ pc' = "done"
    /\ UNCHANGED <<platform, op, scanVars, killVars>>

(* kill_pid *)

\* variant of KillPid: the pid == 0 check is missing
KillPidUnchecked ==
    /\ pc = "idle"
    /\ \E p \in KillPids :
        /\ pid' = p
        /\ op' = "kill_pid"
        /\ pc' = IF platform = "windows" THEN "taskkill" ELSE "term"
        /\ result' = Pending
    /\ UNCHANGED <<platform, scanVars, term, kill, requests>>

\* entry: pid 0 is refused before any command is run
KillPid ==
    /\ pc = "idle"
    /\ \E p \in KillPids :
        /\ pid' = p
        /\ op' = "kill_pid"
        /\ IF p = 0
           THEN pc' = "done" /\ result' = Err(<<"invalid pid">>)
           ELSE /\ pc' = IF platform = "windows" THEN "taskkill" ELSE "term"
                /\ result' = Pending
    /\ UNCHANGED <<platform, scanVars, term, kill, requests>>

\* cfg(windows): taskkill /PID pid /T /F
TaskkillRequest ==
    /\ pc = "taskkill"
    /\ requests' = Append(requests, "TASKKILL")
    /\ \E o \in CmdOutcomes :
        /\ kill' = o
        /\ result' = IF ~o.spawned THEN Err(<<"io error">>)
                     ELSE IF Success(o) THEN Ok(<<>>)
                     ELSE Err(<<"taskkill failed", o.code>>)
    /\ pc' = "done"
    /\ UNCHANGED <<platform, op, scanVars, pid, term>>

\* variant of TermRequest: escalates whatever the status of kill -TERM
TermRequestAlwaysEscalates ==
    /\ pc = "term"
    /\ requests' = Append(requests, "TERM")
    /\ \E o \in CmdOutcomes :
        /\ term' = o
        /\ IF ~o.spawned THEN pc' = "done" /\ result' = Err(<<"io error">>)
           ELSE pc' = "kill" /\ UNCHANGED result
    /\ UNCHANGED <<platform, op, scanVars, pid, kill>>

\* variant of TermRequest: a failed kill -TERM is reported at once
TermRequestNoEscalation ==
    /\ pc = "term"
    /\ requests' = Append(requests, "TERM")
    /\ \E o \in CmdOutcomes :
        /\ term' = o
        /\ result' = IF ~o.spawned THEN Err(<<"io error">>)
                     ELSE IF Success(o) THEN Ok(<<>>)
                     ELSE Err(<<"kill failed", o.code>>)
    /\ pc' = "done"
    /\ UNCHANGED <<platform, op, scanVars, pid, kill>>

\* cfg(not(windows)): kill -TERM pid
TermRequest ==
    /\ pc = "term"
    /\ requests' = Append(requests, "TERM")
    /\ \E o \in CmdOutcomes :
        /\ term' = o
        /\ IF ~o.spawned THEN pc' = "done" /\ result' = Err(<<"io error">>)
           ELSE IF Success(o) THEN pc' = "done" /\ result' = Ok(<<>>)
           ELSE pc' = "kill" /\ UNCHANGED result
    /\ UNCHANGED <<platform, op, scanVars, pid, kill>>

\* variant of KillRequest: the error reports the code of kill -TERM
KillRequestFirstCode ==
    /\ pc = "kill"
    /\ requests' = Append(requests, "KILL")
    /\ \E o \in CmdOutcomes :
        /\ kill' = o
        /\ result' = IF ~o.spawned THEN Err(<<"io error">>)
                     ELSE IF Success(o) THEN Ok(<<>>)
                     ELSE Err(<<"kill failed", term.code>>)
    /\ pc' = "done"
    /\ UNCHANGED <<platform, op, scanVars, pid, term>>

\* cfg(not(windows)): kill -KILL pid
KillRequest ==
    /\ pc = "kill"
    /\ requests' = Append(requests, "KILL")
    /\ \E o \in CmdOutcomes :
        /\ kill' = o
        /\ result' = IF ~o.spawned THEN Err(<<"io error">>)
                     ELSE IF Success(o) THEN Ok(<<>>)
                     ELSE Err(<<"kill failed", o.code>>)
    /\ pc' = "done"
    /\ UNCHANGED <<platform, op, scanVars, pid, term>>

\* the command has returned; its locals are dropped and the next command
\* starts from fresh ones
Return ==
    /\ pc = "done"
    /\ op' = "none"
    /\ pc' = "idle"
    /\ ranges' = <<>>
    /\ sockets' = <<>>
    /\ procs' = <<>>
    /\ osCalls' = <<>>
    /\ pid' = 0
    /\ term' = NoOutcome
    /\ kill' = NoOutcome
    /\ requests' = <<>>
    /\ result' = Pending
    /\ UNCHANGED platform

Next ==
    \/ ScanPorts
    \/ GetSocketsInfo
    \/ RefreshProcesses
    \/ JoinSockets
    \/ KillPid
    \/ TaskkillRequest
    \/ TermRequest
    \/ KillRequest
    \/ Return

Spec == Init /\ [][Next]_vars

\* kill_pid alone. Every step of the command is a blocking call that
\* returns, so a command in flight is never abandoned: weak fairness.
KillNext ==
    \/ KillPid
    \/ TaskkillRequest
    \/ TermRequest
    \/ KillRequest
    \/ Return

KillSpec == Init /\ [][KillNext]_vars /\ WF_vars(KillNext)

-----------------------------------------------------------------------------
(* Vocabulary of the properties *)

ScanDone == op = "scan_ports" /\ pc = "done"
KillDone == op = "kill_pid" /\ pc = "done"

\* kill_pid has returned on the graceful-then-forceful variant, pid # 0
EscalationDone == KillDone /\ platform = "unix" /\ pid # 0

\* the command ran and its status is not success
ReportsFailure(o) == o.spawned /\ o.code # Some(0)

IsOk == result.tag = "Ok"
IsErr == result.tag = "Err"

\* the error kinds of the specification, as the strings kill_pid returns
InvalidArgument == IsErr /\ result.val = <<"invalid pid">>
CommandNotRun == IsErr /\ result.val = <<"io error">>
PlatformCommandError ==
    /\ IsErr
    /\ Len(result.val) = 2
    /\ result.val[1] \in {"kill failed", "taskkill failed"}

\* scan_ports returned a list: `out`
out == result.val

\* the effective bounds of a range
RangeMin(r) == IF r.start < r.end THEN r.start ELSE r.end
RangeMax(r) == IF r.start < r.end THEN r.end ELSE r.start

\* port p lies in at least one of the ranges rs
Covered(p, rs) ==
    \E i \in DOMAIN rs : RangeMin(rs[i]) <= p /\ p <= RangeMax(rs[i])

\* the ranges rs with start and end of the i-th swapped
SwapAt(rs, i) == [rs EXCEPT ![i] = [start |-> @.end, end |-> @.start]]

\* the (socket, owner) positions of the snapshot that are to be reported
ReportedPairs ==
    {<<i, j>> \in (DOMAIN sockets) \X (1..Cardinality(Pids)) :
        /\ j \in DOMAIN sockets[i].associated_pids
        /\ sockets[i].state = "Listen"
        /\ Covered(sockets[i].local_port, ranges)}

-----------------------------------------------------------------------------
(* scan_ports *)

\* C4: every record returned by scan_ports has the port of a socket of the
\* snapshot that is in state Listen, and that port lies between min(start,
\* end) and max(start, end) of at least one range.
C4_OnlyListenersInRange ==
    ScanDone /\ IsOk =>
        \A k \in DOMAIN out :
            /\ Covered(out[k].port, ranges)
            /\ \E i \in DOMAIN sockets :
                  /\ sockets[i].state = "Listen"
                  /\ sockets[i].local_port = out[k].port
                  /\ \E j \in DOMAIN sockets[i].associated_pids :
                        sockets[i].associated_pids[j] = out[k].pid

\* a listener was reported from a reversed range
C4_Witness ==
    /\ ScanDone
    /\ IsOk
    /\ out # <<>>
    /\ \E i \in DOMAIN ranges : ranges[i].start > ranges[i].end

\* C5: with a non-empty range list and a successful socket read, the result
\* holds exactly one record per (socket, owning pid) pair of the listening
\* sockets whose port is in some range: for each port and pid, as many
\* records as such pairs, and no other record; k owners give k records, and
\* a port in several ranges is not reported once per range.
C5_OneRecordPerSocketPid ==
    ScanDone /\ ranges # <<>> /\ IsOk =>
        /\ Len(out) = Cardinality(ReportedPairs)
        /\ \A p \in SocketPorts, q \in Pids :
              Cardinality({k \in DOMAIN out : out[k].port = p /\ out[k].pid = q})
              = Cardinality({x \in ReportedPairs :
                    /\ sockets[x[1]].local_port = p
                    /\ sockets[x[1]].associated_pids[x[2]] = q})

\* a socket with two owners, its port in two ranges: two records
C5_Witness ==
    /\ ScanDone
    /\ IsOk
    /\ Len(ranges) = 2
    /\ \E i \in DOMAIN sockets :
          /\ Len(sockets[i].associated_pids) = 2
          /\ sockets[i].state = "Listen"
          /\ \A r \in DOMAIN ranges :
                /\ RangeMin(ranges[r]) <= sockets[i].local_port
                /\ sockets[i].local_port <= RangeMax(ranges[r])
    /\ Len(out) = 2

\* C6: once the socket read succeeded scan_ports succeeds, also when an
\* owning pid is missing from the process snapshot: that pair is reported
\* with process_name and started_seconds_ago null and the pid of the socket's
\* owner; an owner that is in the snapshot is reported with that process's
\* name and run time. The two fields are null together.
C6_MissingProcess ==
    ScanDone /\ ranges # <<>> /\ osCalls[1].ok =>
        /\ IsOk
        /\ \A k \in DOMAIN out :
              /\ IsSome(out[k].process_name) <=> IsSome(out[k].started_seconds_ago)
              /\ IF out[k].pid \in DOMAIN procs
                 THEN /\ out[k].process_name = Some(procs[out[k].pid].name)
                      /\ out[k].started_seconds_ago = Some(procs[out[k].pid].run_time)
                 ELSE /\ out[k].process_name = None
                      /\ out[k].started_seconds_ago = None
        /\ \A x \in ReportedPairs :
              LET q == sockets[x[1]].associated_pids[x[2]]
              IN  q \notin DOMAIN procs =>
                    \E k \in DOMAIN out :
                        out[k] = [port |-> sockets[x[1]].local_port,
                                  pid |-> q,
                                  process_name |-> None,
                                  started_seconds_ago |-> None]

\* one owner of the socket is running, the other one is gone
C6_Witness ==
    /\ ScanDone
    /\ IsOk
    /\ \E k \in DOMAIN out :
          out[k].process_name = None /\ out[k].pid \notin DOMAIN procs
    /\ \E k \in DOMAIN out :
          out[k].process_name # None /\ out[k].pid \in DOMAIN procs

\* C7: a range with start and end swapped contains the same ports, so
\* swapping any range of the input leaves the result of scan_ports against
\* the same tables unchanged; this includes start = end and the ports 0 and
\* 65535.
C7_RangeSymmetry ==
    op = "scan_ports" =>
        \A i \in DOMAIN ranges :
            /\ \A p \in SocketPorts :
                  InAnyRange(p, SwapAt(ranges, i)) = InAnyRange(p, ranges)
            /\ (pc = "done" /\ IsOk =>
                  ScanJoin(SwapAt(ranges, i), sockets, procs) = out)

\* a listener on port 1 was found through the range 65535..0
C7_Witness ==
    /\ ScanDone
    /\ IsOk
    /\ ranges = <<[start |-> MaxU16, end |-> 0]>>
    /\ \E k \in DOMAIN out : out[k].port = 1

\* C8: scan_ports with no range returns the empty list and reads neither the
\* socket table nor the process table.
C8_EmptyRanges ==
    (op = "scan_ports" /\ ranges = <<>>) =>
        /\ pc = "done"
        /\ result = Ok(<<>>)
        /\ osCalls = <<>>

C8_Witness == ScanDone /\ ranges = <<>> /\ result = Ok(<<>>) /\ osCalls = <<>>

\* C9: with a non-empty range list the socket table is read first, then the
\* process table; when the socket read fails, scan_ports returns the error,
\* the process table is not read and no listener is returned: the call ends
\* with an error after the failed read or with a list after both reads.
C9_SocketReadFailure ==
    (op = "scan_ports" /\ ranges # <<>>) =>
        /\ [i \in DOMAIN osCalls |-> osCalls[i].table]
              \in {<<>>, <<"sockets">>, <<"sockets", "processes">>}
        /\ (osCalls # <<>> /\ ~osCalls[1].ok =>
              /\ pc = "done"
              /\ result = Err(<<"get_sockets_info failed">>)
              /\ Len(osCalls) = 1
              /\ DOMAIN procs = {})
        /\ (pc = "done" =>
              \/ IsErr /\ Len(osCalls) = 1 /\ ~osCalls[1].ok
              \/ /\ IsOk
                 /\ Len(osCalls) = 2
                 /\ osCalls[1].ok
                 /\ Len(out) = Cardinality(ReportedPairs))

C9_Witness ==
    /\ ScanDone
    /\ IsErr
    /\ osCalls = <<OsCall("sockets", FALSE)>>

-----------------------------------------------------------------------------
(* kill_pid *)

\* C1 as stated: on the graceful-then-forceful variant with pid # 0, kill_pid
\* succeeds if TERM reports success or TERM reports failure and KILL reports
\* success; it fails only when both report failure, with the exit code of
\* KILL.
C1_AsStated ==
    EscalationDone =>
        /\ (Success(term) => IsOk)
        /\ (ReportsFailure(term) /\ Success(kill) => IsOk)
        /\ (IsErr => /\ ReportsFailure(term)
                     /\ ReportsFailure(kill)
                     /\ result.val = <<"kill failed", kill.code>>)

\* C1 (amended): as C1, except that kill_pid also fails when a request
\* could not be run at all; that failure is the I/O error and carries no
\* exit code. A failure after two completed requests carries the exit code of
\* KILL, never that of TERM.
C1_KillPidResult ==
    EscalationDone =>
        /\ (Success(term) => IsOk)
        /\ (ReportsFailure(term) /\ Success(kill) => IsOk)
        /\ (IsErr =>
              \/ /\ ReportsFailure(term)
                 /\ ReportsFailure(kill)
                 /\ result.val = <<"kill failed", kill.code>>
              \/ /\ ~term.spawned
                 /\ requests = <<"TERM">>
                 /\ CommandNotRun
              \/ /\ ReportsFailure(term)
                 /\ ~kill.spawned
                 /\ requests = <<"TERM", "KILL">>
                 /\ CommandNotRun)

\* both requests completed with different non-zero exit codes
C1_Witness ==
    /\ EscalationDone
    /\ IsErr
    /\ term.code = Some(1)
    /\ kill.code = Some(2)
    /\ result.val = <<"kill failed", Some(2)>>

\* the requests that reached the OS: a command that could not be run
\* issued nothing
IssuedRequests ==
    (IF Len(requests) >= 1 /\ term.spawned THEN <<"TERM">> ELSE <<>>)
    \o (IF Len(requests) = 2 /\ kill.spawned THEN <<"KILL">> ELSE <<>>)

\* the three terminal states of the escalation
TerminatedGracefully ==
    IsOk /\ IssuedRequests = <<"TERM">> /\ Success(term)
TerminatedForcefully ==
    IsOk /\ IssuedRequests = <<"TERM", "KILL">>
         /\ ReportsFailure(term) /\ Success(kill)
Failed ==
    /\ IssuedRequests = <<"TERM", "KILL">>
    /\ ReportsFailure(term)
    /\ ReportsFailure(kill)
    /\ result = Err(<<"kill failed", kill.code>>)

\* a command could not be run: the call ends with the I/O error, after the
\* attempt to run kill -TERM or after the attempt to run kill -KILL
EndedNotRun ==
    /\ CommandNotRun
    /\ \/ requests = <<"TERM">> /\ ~term.spawned
       \/ requests = <<"TERM", "KILL">> /\ ReportsFailure(term) /\ ~kill.spawned

C2_ShapeAsStated ==
    (op = "kill_pid" /\ platform = "unix") =>
        /\ IssuedRequests \in {<<>>, <<"TERM">>, <<"TERM", "KILL">>}
        /\ ("KILL" \in {requests[i] : i \in 1..Len(requests)}
               => ReportsFailure(term))
        /\ (requests # <<>> /\ Success(term)
               => requests = <<"TERM">> /\ pc = "done")
        /\ (pc = "done" =>
              /\ IssuedRequests \in {<<"TERM">>, <<"TERM", "KILL">>}
              /\ TerminatedGracefully \/ TerminatedForcefully \/ Failed)

\* C2 as stated: in every execution of kill_pid on the graceful-then-forceful
\* variant the requests issued are [TERM] or [TERM, KILL]; KILL is issued only
\* after TERM was issued and reported failure, never after TERM reported
\* success; no request is issued twice; and the call reaches one of the
\* terminal states terminated gracefully, terminated forcefully or failed
\* after at most two requests.
C2_AsStated ==
    /\ []C2_ShapeAsStated
    /\ (op = "kill_pid" /\ platform = "unix") ~> (KillDone /\ Len(requests) <= 2)

C2_Shape ==
    (op = "kill_pid" /\ platform = "unix") =>
        /\ requests \in {<<>>, <<"TERM">>, <<"TERM", "KILL">>}
        /\ IssuedRequests \in {<<>>, <<"TERM">>, <<"TERM", "KILL">>}
        /\ (pid # 0 => (requests = <<>> <=> pc = "term"))
        /\ ("KILL" \in {requests[i] : i \in 1..Len(requests)}
               => ReportsFailure(term))
        /\ (requests # <<>> /\ (Success(term) \/ ~term.spawned)
               => requests = <<"TERM">> /\ pc = "done")
        /\ (pc = "done" =>
              IF pid = 0
              THEN requests = <<>> /\ InvalidArgument
              ELSE \/ TerminatedGracefully
                   \/ TerminatedForcefully
                   \/ Failed
                   \/ EndedNotRun)

\* C2 (amended): on the graceful-then-forceful variant a call with pid = 0
\* issues no request and fails at once. A call with pid # 0 attempts [TERM]
\* or [TERM, KILL]: KILL is attempted only after TERM ran and reported
\* failure, never after TERM reported success or could not be run; no
\* request is attempted twice; and the call ends after at most two attempts,
\* terminated gracefully, terminated forcefully, failed (both requests ran
\* and reported failure; the error carries the exit code of KILL), or with
\* the I/O error of a command that could not be run, which issued nothing.
C2_EscalationSequence ==
    /\ []C2_Shape
    /\ (op = "kill_pid" /\ platform = "unix") ~> (KillDone /\ Len(requests) <= 2)

\* the escalation ran both requests and the second one succeeded
C2_Witness ==
    /\ EscalationDone
    /\ requests = <<"TERM", "KILL">>
    /\ IsOk

\* C3: kill_pid(0) fails with InvalidArgument and runs no command, on either
\* platform variant; no call with pid # 0 fails with InvalidArgument.
C3_InvalidPid ==
    op = "kill_pid" =>
        /\ (pid = 0 => requests = <<>> /\ pc = "done" /\ InvalidArgument)
        /\ (pid # 0 => ~InvalidArgument)

C3_Witness == KillDone /\ pid = 0 /\ InvalidArgument /\ requests = <<>>

\* C10 as stated: kill_pid fails only with InvalidArgument (pid = 0) or with
\* PlatformCommandError, the latter only for a request that completed with a
\* non-success status; on the graceful-then-forceful variant with pid # 0,
\* however TERM fails to succeed, no failure is returned before KILL was
\* issued.
C10_AsStated ==
    KillDone /\ IsErr =>
        /\ \/ InvalidArgument /\ pid = 0
           \/ PlatformCommandError /\ ReportsFailure(kill)
                /\ result.val[2] = kill.code
        /\ (platform = "unix" /\ pid # 0 => requests = <<"TERM", "KILL">>)

\* C10 (amended): kill_pid fails only with InvalidArgument (pid = 0), with
\* PlatformCommandError, or with the I/O error of a command that could not
\* be run. PlatformCommandError is reported only for a request that
\* completed with a non-success status. On the graceful-then-forceful variant
\* with pid # 0, when TERM completes without success (a non-zero exit code or
\* no exit code), no failure is returned before KILL was issued; when TERM
\* could not be run, the failure is returned at once and KILL is not issued.
C10_KillPidErrors ==
    KillDone /\ IsErr =>
        /\ \/ InvalidArgument /\ pid = 0
           \/ PlatformCommandError /\ ReportsFailure(kill)
                /\ result.val[2] = kill.code
           \/ CommandNotRun /\ requests # <<>>
                /\ ~(IF Len(requests) = 2 \/ platform = "windows"
                      THEN kill ELSE term).spawned
        /\ (platform = "unix" /\ pid # 0 =>
              /\ (ReportsFailure(term) => requests = <<"TERM", "KILL">>)
              /\ (~term.spawned => requests = <<"TERM">> /\ CommandNotRun))

\* TERM ended without an exit code, KILL was issued and failed
C10_Witness ==
    /\ EscalationDone
    /\ term = [spawned |-> TRUE, code |-> None]
    /\ requests = <<"TERM", "KILL">>
    /\ PlatformCommandError

====
